---- MODULE Spec2Model ----
(***************************************************************************)
(* Model of the Groupon scraper: the HTTP variant (bs4_scrapper.py) and    *)
(* the browser-automation variant (groupon_scraper.py).                    *)
(*                                                                         *)
(* Strings are sequences of tokens.  A token is either a separator         *)
(* character ("/", " ") or a whole word that contains no separator, so     *)
(* Python's substring, startswith, endswith and strip are computed on the  *)
(* token sequence exactly as they are computed on the characters.          *)
(***************************************************************************)
EXTENDS Integers, Sequences, FiniteSets, TLC

\* ------------------------------------------------------------------------
\* Bounds of the model
\* ------------------------------------------------------------------------
MaxLines == 3      \* lines in zipcodes.txt
MaxAnchors == 3    \* <a> elements in a listing page
MaxOptions == 2    \* price-option containers in a detail page

\* ------------------------------------------------------------------------
\* String helpers (Python str operations on token sequences)
\* ------------------------------------------------------------------------
ORIGIN == "https://www.groupon.com"
DEALS_MARKER == <<"/", "deals", "/">>

\* s.startswith(p)
StartsWith(s, p) ==
    /\ Len(s) >= Len(p)
    /\ SubSeq(s, 1, Len(p)) = p

\* s.endswith(p)
EndsWith(s, p) ==
    /\ Len(s) >= Len(p)
    /\ SubSeq(s, Len(s) - Len(p) + 1, Len(s)) = p

\* p in s
Contains(s, p) ==
    \E i \in 1..(Len(s) - Len(p) + 1) : SubSeq(s, i, i + Len(p) - 1) = p

\* all sequences over S of length at most n
SeqsUpTo(S, n) == UNION {[1..k -> S] : k \in 0..n}

\* ------------------------------------------------------------------------
\* Listing markup: the sequence of <a> elements in document order.
\*   hasHref : the element carries an href attribute
\*   href    : its value (<<>> when absent or empty)
\*   anc     : the selector-relevant ancestors of the element
\* ------------------------------------------------------------------------
HrefValues ==
    { <<"/", "deals", "/", "a">>,              \* /deals/a
      <<"/", "deals", "/", "b">>,              \* /deals/b
      <<ORIGIN, "/", "deals", "/", "a">>,      \* https://www.groupon.com/deals/a
      <<"/", "deals", "/">>,                   \* /deals/   (bare index)
      <<"..", "/", "deals", "/", "b">>,        \* ../deals/b
      <<"/", "local", "/", "a">> }             \* /local/a  (not a deal)

AncestorSets ==
    { {}, {"figure.card-ui", ".deal"},
      {"div.deal-card", ".card", "[data-bhw='DealCard']"} }

Anchors ==
    [hasHref : {TRUE}, href : HrefValues, anc : AncestorSets]
        \cup [hasHref : {FALSE}, href : {<<>>}, anc : {{"figure.card-ui", ".deal"}}]

\* link.get('href', '')
GetHref(link) == IF link.hasHref THEN link.href ELSE <<>>

\* if '/deals/' in href and not href.endswith('/deals/')
IsDealHref(href) ==
    /\ Contains(href, DEALS_MARKER)
    /\ ~EndsWith(href, DEALS_MARKER)

\* full_url = f"https://www.groupon.com{href}" if href.startswith('/') else href
FullUrl(href) ==
    IF StartsWith(href, <<"/">>) THEN <<ORIGIN>> \o href ELSE href

\* x in list
InList(x, list) == \E i \in 1..Len(list) : list[i] = x

\* The body of the loop over found elements: accept, resolve, deduplicate.
RECURSIVE CollectLinks(_, _)
CollectLinks(found, links) ==
    IF found = <<>> THEN links
    ELSE LET href == GetHref(Head(found))
             full_url == FullUrl(href)
         IN  IF IsDealHref(href) /\ ~InList(full_url, links)
             THEN CollectLinks(Tail(found), Append(links, full_url))
             ELSE CollectLinks(Tail(found), links)

\* link_selectors of the HTTP variant, in the order they are tried
link_selectors ==
    << "a[href*='/deals/']", "figure.card-ui a", "div.deal-card a",
       "[data-bhw='DealCard'] a", "a[href*='groupon.com/deals']",
       ".deal a", ".card a" >>

\* the first pattern written as a[href^='/deals/'] (prefix, not substring)
Matches_FirstPatternPrefix(selector, link) ==
    CASE selector = "a[href*='/deals/']" ->
            link.hasHref /\ StartsWith(link.href, DEALS_MARKER)
      [] selector = "figure.card-ui a" -> "figure.card-ui" \in link.anc
      [] selector = "div.deal-card a" -> "div.deal-card" \in link.anc
      [] selector = "[data-bhw='DealCard'] a" -> "[data-bhw='DealCard']" \in link.anc
      [] selector = "a[href*='groupon.com/deals']" ->
            link.hasHref /\ Contains(link.href, <<ORIGIN, "/", "deals">>)
      [] selector = ".deal a" -> ".deal" \in link.anc
      [] selector = ".card a" -> ".card" \in link.anc

\* soup.select(selector): does the element match the selector
Matches(selector, link) ==
    CASE selector = "a[href*='/deals/']" ->
            link.hasHref /\ Contains(link.href, DEALS_MARKER)
      [] selector = "figure.card-ui a" -> "figure.card-ui" \in link.anc
      [] selector = "div.deal-card a" -> "div.deal-card" \in link.anc
      [] selector = "[data-bhw='DealCard'] a" -> "[data-bhw='DealCard']" \in link.anc
      [] selector = "a[href*='groupon.com/deals']" ->
            link.hasHref /\ Contains(link.href, <<ORIGIN, "/", "deals">>)
      [] selector = ".deal a" -> ".deal" \in link.anc
      [] selector = ".card a" -> ".card" \in link.anc

\* soup.select(selector), in document order
Select(soup, selector) ==
    LET Hit(link) == Matches(selector, link) IN SelectSeq(soup, Hit)

\* HTTP variant: for selector in link_selectors: for link in found_elements
RECURSIVE ExtractLinksHttpFrom(_, _, _)
ExtractLinksHttpFrom(soup, k, links) ==
    IF k > Len(link_selectors) THEN links
    ELSE ExtractLinksHttpFrom(soup, k + 1,
             CollectLinks(Select(soup, link_selectors[k]), links))

ExtractLinksHttp(soup) == ExtractLinksHttpFrom(soup, 1, <<>>)

\* Browser variant: for link in soup.find_all("a", href=True)
ExtractLinksBrowser(soup) ==
    LET WithHref(link) == link.hasHref
    IN  CollectLinks(SelectSeq(soup, WithHref), <<>>)

ExtractLinks(v, soup) ==
    IF v = "http" THEN ExtractLinksHttp(soup) ELSE ExtractLinksBrowser(soup)

Variants == {"http", "browser"}

\* ------------------------------------------------------------------------
\* Transport.  The site's behaviour for one logical fetch is the sequence of
\* answers it would give to attempts 1, 2, 3: an exception (network error,
\* timeout, WebDriverException) or a response with a status and a body.
\* ------------------------------------------------------------------------
MaxAttempts == 3   \* @retry(stop=stop_after_attempt(3))

EXCEPTION == [raises |-> TRUE, status |-> "none", body |-> <<>>]
Response(status, body) == [raises |-> FALSE, status |-> status, body |-> body]
Statuses == {"2xx", "non2xx"}

\* the answers the site can give when every body is drawn from Bodies
Responses(Bodies) ==
    {EXCEPTION} \cup {Response(st, b) : st \in Statuses, b \in Bodies}
Scripts(Bodies) == [1..MaxAttempts -> Responses(Bodies)]

\* what a fetch hands back to its caller
Fetched(content, status, n) ==
    [ok |-> TRUE, content |-> content, status |-> status, attempts |-> n]
FetchError(n) ==
    [ok |-> FALSE, content |-> <<>>, status |-> "none", attempts |-> n]

\* HTTP variant, one attempt of make_request: scraper.get raises, or its
\* response.text is returned whatever response.status_code is.
RECURSIVE Attempt(_, _)
Attempt(resps, n) ==
    IF resps[n].raises
    THEN IF n >= MaxAttempts THEN FetchError(n) ELSE Attempt(resps, n + 1)
    ELSE Fetched(resps[n].body, resps[n].status, n)

\* HTTP variant: make_request under its @retry decorator
make_request(resps) == Attempt(resps, 1)

\* Browser variant: driver.get(url) once, then driver.page_source
driver_get(resps) ==
    IF resps[1].raises THEN FetchError(1)
    ELSE Fetched(resps[1].body, resps[1].status, 1)

\* one logical fetch of the variant
Fetch(v, resps) == IF v = "http" THEN make_request(resps) ELSE driver_get(resps)

\* ------------------------------------------------------------------------
\* Inputs of a run
\* ------------------------------------------------------------------------
SPACE == " "       \* any whitespace character, the line's newline included

\* the lines zipcodes.txt can hold
LineValues ==
    { <<SPACE>>,                       \* a blank line
      <<"10001", SPACE>>,              \* "10001\n"
      <<SPACE, "90210", SPACE>> }      \* " 90210\n"

Files ==
    {[exists |-> FALSE, lines |-> <<>>]}
        \cup {[exists |-> TRUE, lines |-> ls] : ls \in SeqsUpTo(LineValues, MaxLines)}

Anchor(href) == [hasHref |-> TRUE, href |-> href, anc |-> {}]

\* the listing pages the site serves during a run
ListingPages ==
    { <<>>,
      << Anchor(<<"/", "deals", "/", "a">>), Anchor(<<"/", "deals", "/">>),
         Anchor(<<ORIGIN, "/", "deals", "/", "a">>) >>,
      << Anchor(<<"/", "deals", "/", "a">>), Anchor(<<"/", "deals", "/", "b">>) >> }

search_term == "Hydrafacial"

\* str.strip()
RECURSIVE LStrip(_)
LStrip(s) == IF s # <<>> /\ Head(s) = SPACE THEN LStrip(Tail(s)) ELSE s
RECURSIVE RStrip(_)
RStrip(s) ==
    IF s # <<>> /\ s[Len(s)] = SPACE THEN RStrip(SubSeq(s, 1, Len(s) - 1)) ELSE s
Strip(s) == RStrip(LStrip(s))

\* "if line" in place of "if line.strip()": whitespace-only lines are kept
KeepLine_NoStrip(line) == line # <<>>

\* if line.strip()
KeepLine(line) == Strip(line) # <<>>

\* [line.strip() for line in f if line.strip()]
RECURSIVE ParseZipCodes(_)
ParseZipCodes(lines) ==
    IF lines = <<>> THEN <<>>
    ELSE IF KeepLine(Head(lines))
         THEN <<Strip(Head(lines))>> \o ParseZipCodes(Tail(lines))
         ELSE ParseZipCodes(Tail(lines))

\* ------------------------------------------------------------------------
\* Detail markup.  For every field the page holds the elements that match the
\* field's selector, in document order, each given by its raw text:
\*   title, merchant, location, fine_print, description : sequences of texts
\*   highlights : sequence of highlight containers, each the texts of its <li>
\*   options    : the "deal-option" containers, each with the elements that
\*                match its sub-field selectors
\* ------------------------------------------------------------------------
TEXT == <<SPACE, "text", SPACE>>     \* " text\n"
BLANK_TEXT == <<SPACE>>              \* whitespace only

\* the elements a page can hold for one field
ElemLists == { <<>>, <<BLANK_TEXT>>, <<TEXT>> }
TitleLists == ElemLists \cup { <<BLANK_TEXT, TEXT>> }
HighlightLists == { <<>>, << <<>> >>, << <<TEXT, BLANK_TEXT>> >> }

NoElems == <<>>
Container(t, o, c, d, b) ==
    [title |-> t, original_price |-> o, current_price |-> c, discount |-> d,
     bought |-> b]

\* the option containers a page can hold
Containers ==
    { Container(NoElems, NoElems, NoElems, NoElems, NoElems),
      Container(NoElems, NoElems, NoElems, <<TEXT>>, NoElems),
      Container(NoElems, <<BLANK_TEXT>>, NoElems, NoElems, NoElems),
      Container(<<TEXT>>, NoElems, <<TEXT>>, NoElems, NoElems) }

\* every detail page within the bound
DetailMarkups ==
    [title : TitleLists, merchant : ElemLists, location : ElemLists,
     fine_print : ElemLists, description : ElemLists,
     highlights : HighlightLists, options : SeqsUpTo(Containers, MaxOptions)]

\* a dict without keys
EmptyDict == [k \in {} |-> <<>>]

\* element.get_text(strip=True)
GetText(raw) == Strip(raw)

\* "if title:" -- soup.find found an element (a Tag is always true)
Found(elems) == elems # <<>>

\* x = soup.find(...); if x: deal_data[key] = x.get_text(strip=True)
Field(key, elems) ==
    IF Found(elems) THEN key :> GetText(Head(elems)) ELSE EmptyDict

\* option_data of one container, HTTP variant
OptionDataHttp(c) ==
    Field("original_price", c.original_price) @@ Field("current_price", c.current_price)

\* option_data of one container, browser variant
OptionDataBrowser(c) ==
    Field("title", c.title) @@ Field("original_price", c.original_price)
        @@ Field("current_price", c.current_price) @@ Field("discount", c.discount)
        @@ Field("bought", c.bought)

OptionData(v, c) == IF v = "http" THEN OptionDataHttp(c) ELSE OptionDataBrowser(c)

\* the append without its "if option_data:" guard
KeepOption_Always(option_data) == TRUE

\* if option_data:
KeepOption(option_data) == DOMAIN option_data # {}

\* for option in soup.find_all(...): ... if option_data: options.append(option_data)
RECURSIVE CollectOptions(_, _)
CollectOptions(v, containers) ==
    IF containers = <<>> THEN <<>>
    ELSE LET option_data == OptionData(v, Head(containers))
         IN  (IF KeepOption(option_data) THEN <<option_data>> ELSE <<>>)
                 \o CollectOptions(v, Tail(containers))

\* if options: deal_data[key] = options
OptionsField(key, opts) == IF opts # <<>> THEN key :> opts ELSE EmptyDict

\* if highlights: deal_data["highlights"] = [li.get_text(strip=True) for li in ...]
HighlightsField(hl) ==
    IF Found(hl)
    THEN "highlights" :> [i \in 1..Len(Head(hl)) |-> GetText(Head(hl)[i])]
    ELSE EmptyDict

\* the optional keys the HTTP variant's scrape_deals adds to deal_data
DetailFieldsHttp(page) ==
    Field("title", page.title) @@ Field("merchant", page.merchant)
        @@ OptionsField("price_options", CollectOptions("http", page.options))
        @@ HighlightsField(page.highlights)
        @@ Field("fine_print", page.fine_print)

\* the optional keys the browser variant's get_deal_details adds to deal_data
DetailFieldsBrowser(page) ==
    Field("title", page.title) @@ Field("merchant", page.merchant)
        @@ Field("location", page.location)
        @@ OptionsField("options", CollectOptions("browser", page.options))
        @@ Field("fine_print", page.fine_print)
        @@ HighlightsField(page.highlights)
        @@ Field("description", page.description)

DetailFields(v, page) ==
    IF v = "http" THEN DetailFieldsHttp(page) ELSE DetailFieldsBrowser(page)

\* the detail pages the site serves during a run
DetailPages ==
    { [title |-> <<TEXT>>, merchant |-> <<>>, location |-> <<>>,
       fine_print |-> <<BLANK_TEXT>>, description |-> <<>>, highlights |-> <<>>,
       options |-> << [title |-> <<>>, original_price |-> <<>>,
                       current_price |-> <<TEXT>>, discount |-> <<>>,
                       bought |-> <<>>] >>] }

\* f"https://www.groupon.com/search?query={search_term}&address={zip_code}"
SearchUrl(term, zip_code) ==
    <<ORIGIN, "/", "search", "?query=", term, "&address=">> \o zip_code

\* deal_data of a detail page that was fetched and parsed
DealData(url, zip_code) ==
    [url |-> url, zip_code |-> zip_code, search_term |-> search_term]

\* {"url": url, "error": str(e)} with zip_code and search_term attached
ErrorData(url, zip_code) ==
    [url |-> url, error |-> "error", zip_code |-> zip_code,
     search_term |-> search_term]

\* events of the current query pass
FetchEvent(kind, url, ok) == [ev |-> "fetch", kind |-> kind, url |-> url, ok |-> ok]
DelayEvent(kind) == [ev |-> "delay", kind |-> kind, url |-> <<>>, ok |-> TRUE]

\* ------------------------------------------------------------------------
\* State
\* ------------------------------------------------------------------------
VARIABLES
    variant,     \* "http" (bs4_scrapper.py) or "browser" (groupon_scraper.py)
    file,        \* zipcodes.txt
    pc,          \* position of main()
    zip_codes,   \* main: zip_codes
    qi,          \* number of zip codes the for loop has taken
    links,       \* scrape_deals: links
    li,          \* index of the next link of the for loop over links
    deals,       \* scrape_deals: deals
    all_deals,   \* main: all_deals
    output,      \* content of deals.json
    writes,      \* number of times deals.json was written
    exit_code,   \* "running", 0 (normal exit) or 1 (sys.exit(1) / uncaught exception)
    raised,      \* an exception is propagating out of main's inner try
    inits,       \* number of GrouponScraper() constructions started
    fetched,     \* a page fetch has been issued
    driver,      \* browser session: "none", "open", "quit"
    quits,       \* number of driver.quit() calls
    obj,         \* the GrouponScraper object: "none", "live", "unreachable", "finalized"
    passes,      \* zip codes of the query passes started, in order
    trace,       \* fetches and delays of the current query pass
    soup,        \* listing markup handed to the extractor (extractor runs)
    found,       \* result of the extractor (extractor runs)
    req,         \* a transport fetch and its result (transport runs)
    detail_page, \* detail markup handed to the extractor (detail runs)
    detail       \* deal_data the extractor produced (detail runs)

vars == << variant, file, pc, zip_codes, qi, links, li, deals, all_deals, output,
           writes, exit_code, raised, inits, fetched, driver, quits, obj, passes,
           trace, soup, found, req, detail_page, detail >>

runVars == << variant, file, pc, zip_codes, qi, links, li, deals, all_deals, output,
              writes, exit_code, raised, inits, fetched, driver, quits, obj, passes,
              trace >>

NoCall == [called |-> FALSE, links |-> <<>>]
NoPage == [title |-> <<>>, merchant |-> <<>>, location |-> <<>>, fine_print |-> <<>>,
           description |-> <<>>, highlights |-> <<>>, options |-> <<>>]
NoDetail == [called |-> FALSE, data |-> EmptyDict]
NoReq == [called |-> FALSE, resps |-> <<>>,
          result |-> [ok |-> FALSE, content |-> <<>>, status |-> "none", attempts |-> 0]]

\* state of main() before its first statement
InitRun ==
    /\ pc = "start"
    /\ zip_codes = <<>>
    /\ qi = 0
    /\ links = <<>>
    /\ li = 1
    /\ deals = <<>>
    /\ all_deals = <<>>
    /\ output = <<>>
    /\ writes = 0
    /\ exit_code = "running"
    /\ raised = FALSE
    /\ inits = 0
    /\ fetched = FALSE
    /\ driver = "none"
    /\ quits = 0
    /\ obj = "none"
    /\ passes = <<>>
    /\ trace = <<>>

Init ==
    /\ variant \in Variants
    /\ file \in Files
    /\ InitRun
    /\ soup = <<>>
    /\ found = NoCall
    /\ req = NoReq
    /\ detail_page = NoPage
    /\ detail = NoDetail

\* ------------------------------------------------------------------------
\* Operations of a run
\* ------------------------------------------------------------------------

\* main without its "if not zip_codes: raise ValueError"
StartupFails_NoEmptyCheck(f) == ~f.exists

\* main: open("zipcodes.txt") raises, or "if not zip_codes: raise ValueError"
StartupFails(f) == ~f.exists \/ ParseZipCodes(f.lines) = <<>>

\* main: read the zip codes; a missing or empty file ends the run
\* (HTTP: sys.exit(1) in the handler; browser: the exception is re-raised).
ReadZipCodes ==
    /\ pc = "start"
    /\ zip_codes' = IF file.exists THEN ParseZipCodes(file.lines) ELSE <<>>
    /\ IF StartupFails(file)
       THEN pc' = "exit" /\ exit_code' = 1
       ELSE pc' = "init" /\ UNCHANGED exit_code
    /\ UNCHANGED << variant, file, qi, links, li, deals, all_deals, output, writes,
                    raised, inits, fetched, driver, quits, obj, passes, trace,
                    soup, found, req, detail_page,
                    detail >>

\* what GrouponScraper() can do: succeed, fail before a browser session exists
\* (no Chrome binary, uc.Chrome raises; cloudscraper or UserAgent raises), or
\* fail after the session was created (the homepage load raises).
InitOutcomes(v) ==
    IF v = "http" THEN {"ok", "failed"} ELSE {"ok", "failed", "homepage_failed"}

\* main: scraper = GrouponScraper(); all_deals = []
InitScraper ==
    /\ pc = "init"
    /\ inits' = inits + 1
    /\ \E outcome \in InitOutcomes(variant) :
        /\ driver' = IF variant = "browser" /\ outcome # "failed" THEN "open" ELSE driver
        /\ fetched' = IF variant = "browser" /\ outcome # "failed" THEN TRUE ELSE fetched
        /\ IF outcome = "ok"
           THEN /\ pc' = "loop"
                /\ obj' = "live"
                /\ UNCHANGED << raised, exit_code >>
           ELSE IF variant = "http"
                THEN \* __init__ re-raises; main's handler calls sys.exit(1)
                     /\ pc' = "exit"
                     /\ exit_code' = 1
                     /\ UNCHANGED << raised, obj >>
                ELSE \* __init__ re-raises; 'scraper' is not bound, so the
                     \* finally block deletes nothing; main re-raises
                     /\ pc' = "unwind"
                     /\ raised' = TRUE
                     /\ obj' = "unreachable"
                     /\ UNCHANGED exit_code
    /\ UNCHANGED << variant, file, zip_codes, qi, links, li, deals, all_deals, output,
                    writes, quits, passes, trace, soup, found, req, detail_page,
                    detail >>

\* get_deal_links whose handler returns links left over from an earlier page
\* instead of []
get_deal_links_StaleOnError(v, resps) ==
    LET r == Fetch(v, resps)
    IN  IF r.ok THEN [ok |-> TRUE, links |-> ExtractLinks(v, r.content)]
        ELSE [ok |-> FALSE, links |-> << <<ORIGIN, "/", "deals", "/", "a">> >>]

\* get_deal_links: fetch the listing page and extract its links; any
\* exception is caught and gives []
get_deal_links(v, resps) ==
    LET r == Fetch(v, resps)
    IN  IF r.ok THEN [ok |-> TRUE, links |-> ExtractLinks(v, r.content)]
        ELSE [ok |-> FALSE, links |-> <<>>]

\* the fetches and delays of get_deal_links
ListingEvents(v, url, ok) ==
    IF v = "browser" /\ ok
    THEN << FetchEvent("listing", url, ok), DelayEvent("page") >>
    ELSE << FetchEvent("listing", url, ok) >>

\* main: the for loop takes the next zip code; scrape_deals calls get_deal_links
StartQuery ==
    /\ pc = "loop"
    /\ qi < Len(zip_codes)
    /\ LET zip_code == zip_codes[qi + 1]
       IN  /\ \E resps \in Scripts(ListingPages) :
                LET got == get_deal_links(variant, resps)
                IN  /\ links' = got.links
                    /\ trace' = ListingEvents(variant, SearchUrl(search_term, zip_code),
                                              got.ok)
           /\ passes' = Append(passes, zip_code)
    /\ qi' = qi + 1
    /\ li' = 1
    /\ deals' = <<>>
    /\ fetched' = TRUE
    /\ pc' = "links"
    /\ UNCHANGED << variant, file, zip_codes, all_deals, output, writes, exit_code,
                    raised, inits, driver, quits, obj, soup, found, req, detail_page,
                    detail >>

\* one iteration of "for link in links": the records it appends to deals.
\* HTTP: deal_data on success, nothing on failure (except: ... continue).
\* Browser: get_deal_details returns deal_data or {"url", "error"}; both are
\* tagged and appended.
LinkRecords(v, link, zip_code, r) ==
    IF r.ok THEN << DealData(link, zip_code) @@ DetailFields(v, r.content) >>
    ELSE IF v = "http" THEN <<>>
    ELSE << ErrorData(link, zip_code) >>

\* the fetches and delays of that iteration
LinkEvents(v, link, r) ==
    IF v = "http"
    THEN IF r.ok THEN << FetchEvent("detail", link, TRUE), DelayEvent("link") >>
         ELSE << FetchEvent("detail", link, FALSE) >>
    ELSE IF r.ok
         THEN << FetchEvent("detail", link, TRUE), DelayEvent("page"), DelayEvent("link") >>
         ELSE << FetchEvent("detail", link, FALSE), DelayEvent("link") >>

\* scrape_deals: one iteration of the loop over links
ProcessLink ==
    /\ pc = "links"
    /\ li <= Len(links)
    /\ \E resps \in Scripts(DetailPages) :
        LET r == Fetch(variant, resps)
        IN  /\ deals' = deals \o LinkRecords(variant, links[li], zip_codes[qi], r)
            /\ trace' = trace \o LinkEvents(variant, links[li], r)
    /\ li' = li + 1
    /\ UNCHANGED << variant, file, pc, zip_codes, qi, links, all_deals, output, writes,
                    exit_code, raised, inits, fetched, driver, quits, obj, passes,
                    soup, found, req, detail_page,
                    detail >>

\* the delay main makes after a query: time.sleep(random.uniform(10, 15)) in
\* the HTTP variant, none in the browser variant
QueryEvents(v) == IF v = "http" THEN << DelayEvent("query") >> ELSE <<>>

\* scrape_deals returns; main: all_deals.extend(deals)
EndQuery ==
    /\ pc = "links"
    /\ li > Len(links)
    /\ all_deals' = all_deals \o deals
    /\ trace' = trace \o QueryEvents(variant)
    /\ pc' = "loop"
    /\ UNCHANGED << variant, file, zip_codes, qi, links, li, deals, output, writes,
                    exit_code, raised, inits, fetched, driver, quits, obj, passes,
                    soup, found, req, detail_page,
                    detail >>

\* the save indented into the for loop over zip_codes
LoopDone_SaveInLoop == qi >= 1

\* main may save once the for loop over zip_codes is exhausted
LoopDone == qi = Len(zip_codes)

\* main: json.dump(all_deals, f) after the loop; creating the directory
\* or opening the file can raise
SaveResults ==
    /\ pc = "loop"
    /\ LoopDone
    /\ \E ok \in BOOLEAN :
        /\ IF ok THEN output' = all_deals /\ writes' = writes + 1
                 ELSE UNCHANGED << output, writes >>
        /\ IF variant = "http"
           THEN /\ pc' = "exit"
                /\ exit_code' = IF ok THEN 0 ELSE 1
                /\ UNCHANGED raised
           ELSE /\ pc' = "finally"
                /\ raised' = ~ok
                /\ UNCHANGED exit_code
    /\ UNCHANGED << variant, file, zip_codes, qi, links, li, deals, all_deals, inits,
                    fetched, driver, quits, obj, passes, trace, soup, found, req, detail_page,
                    detail >>

\* __del__: if hasattr(self, 'driver'): self.driver.quit()
DelDriver(d) == IF d = "none" THEN "none" ELSE "quit"
DelQuits(d, n) == IF d = "none" THEN n ELSE n + 1

\* browser main, finally: if 'scraper' in locals(): del scraper.  The name
\* held the only reference, so __del__ runs at once.
Cleanup ==
    /\ pc = "finally"
    /\ obj' = "finalized"
    /\ driver' = DelDriver(driver)
    /\ quits' = DelQuits(driver, quits)
    /\ pc' = "exit"
    /\ exit_code' = IF raised THEN 1 ELSE 0
    /\ UNCHANGED << variant, file, zip_codes, qi, links, li, deals, all_deals, output,
                    writes, raised, inits, fetched, passes, trace, soup, found, req, detail_page,
                    detail >>

\* The object of a failed __init__ is referenced only by the traceback of the
\* propagating exception.  Python may run its __del__ before the interpreter
\* exits, and does not promise to.
Finalize ==
    /\ pc = "unwind"
    /\ obj = "unreachable"
    /\ obj' = "finalized"
    /\ driver' = DelDriver(driver)
    /\ quits' = DelQuits(driver, quits)
    /\ UNCHANGED << variant, file, pc, zip_codes, qi, links, li, deals, all_deals,
                    output, writes, exit_code, raised, inits, fetched, passes, trace,
                    soup, found, req, detail_page,
                    detail >>

\* the exception leaves main: the process ends abnormally
ProcessExit ==
    /\ pc = "unwind"
    /\ pc' = "exit"
    /\ exit_code' = 1
    /\ UNCHANGED << variant, file, zip_codes, qi, links, li, deals, all_deals, output,
                    writes, raised, inits, fetched, driver, quits, obj, passes, trace,
                    soup, found, req, detail_page,
                    detail >>

Next ==
    \/ ReadZipCodes
    \/ InitScraper
    \/ StartQuery
    \/ ProcessLink
    \/ EndQuery
    \/ SaveResults
    \/ Cleanup
    \/ Finalize
    \/ ProcessExit

Spec == Init /\ [][Next]_vars

\* ------------------------------------------------------------------------
\* Transport runs: one logical fetch against every script of site answers
\* ------------------------------------------------------------------------
FetchBodies == { <<"page1">>, <<"page2">> }

InitFetch ==
    /\ variant \in Variants
    /\ file = [exists |-> FALSE, lines |-> <<>>]
    /\ InitRun
    /\ soup = <<>>
    /\ found = NoCall
    /\ req = NoReq
    /\ detail_page = NoPage
    /\ detail = NoDetail

\* a caller fetches one URL
FetchCall ==
    /\ ~req.called
    /\ \E resps \in Scripts(FetchBodies) :
        req' = [called |-> TRUE, resps |-> resps, result |-> Fetch(variant, resps)]
    /\ UNCHANGED << runVars, soup, found, detail_page, detail >>

NextFetch == FetchCall

SpecFetch == InitFetch /\ [][NextFetch]_vars

\* ------------------------------------------------------------------------
\* Extractor runs (listing mode): every listing markup within the bound
\* ------------------------------------------------------------------------
InitLinks ==
    /\ variant \in Variants
    /\ file = [exists |-> FALSE, lines |-> <<>>]
    /\ InitRun
    /\ soup \in SeqsUpTo(Anchors, MaxAnchors)
    /\ found = NoCall
    /\ req = NoReq
    /\ detail_page = NoPage
    /\ detail = NoDetail

\* get_deal_links parses the page source and collects the deal links
ExtractCall ==
    /\ ~found.called
    /\ found' = [called |-> TRUE, links |-> ExtractLinks(variant, soup)]
    /\ UNCHANGED << runVars, soup, req, detail_page, detail >>

NextLinks == ExtractCall

SpecLinks == InitLinks /\ [][NextLinks]_vars

\* ------------------------------------------------------------------------
\* Extractor runs (detail mode): every detail markup within the bound
\* ------------------------------------------------------------------------
InitDetail ==
    /\ variant \in Variants
    /\ file = [exists |-> FALSE, lines |-> <<>>]
    /\ InitRun
    /\ soup = <<>>
    /\ found = NoCall
    /\ req = NoReq
    /\ detail_page \in DetailMarkups
    /\ detail = NoDetail

\* the detail page is parsed and its fields are put into deal_data
DetailCall ==
    /\ ~detail.called
    /\ detail' = [called |-> TRUE, data |-> DetailFields(variant, detail_page)]
    /\ UNCHANGED << runVars, soup, found, req, detail_page >>

NextDetail == DetailCall

SpecDetail == InitDetail /\ [][NextDetail]_vars

\* ========================================================================
\* Properties
\* ========================================================================

IsDetailFetch(e) == e.ev = "fetch" /\ e.kind = "detail"
IsListingFetch(e) == e.ev = "fetch" /\ e.kind = "listing"

\* the detail fetches of the current query pass, in order
DetailFetches == SelectSeq(trace, IsDetailFetch)
\* the listing fetches of the current query pass
ListingFetches == SelectSeq(trace, IsListingFetch)

\* C1: every link of the listing that the loop has passed has exactly one
\* record in the pass's result, in link order, carrying the link's url, and
\* the record of a link whose detail fetch failed carries an error message;
\* a failed link is never dropped.
C1_FailedLinkKeepsRecord ==
    pc = "links" =>
        /\ Len(deals) = li - 1
        /\ \A k \in 1..Len(deals) : deals[k].url = links[k]
        /\ \A k \in 1..Len(deals) :
               (k <= Len(DetailFetches) /\ ~DetailFetches[k].ok)
                   => "error" \in DOMAIN deals[k]

\* the listing fetch of the current (or last) query pass failed
ListingFailed ==
    /\ trace # <<>>
    /\ IsListingFetch(trace[1])
    /\ ~trace[1].ok

\* C2: a query whose listing fetch failed contributes no record, has no
\* detail fetch and exactly one listing fetch, leaves the accumulated records
\* unchanged, and is followed by the next zip code in order.
C2_FailedQuerySkipped ==
    /\ [](ListingFailed =>
            /\ deals = <<>>
            /\ DetailFetches = <<>>
            /\ Len(ListingFetches) = 1
            /\ (pc = "links" => li > Len(links)))
    /\ [][ListingFailed =>
            /\ all_deals' = all_deals
            /\ (pc = "links" => pc' = "loop" /\ qi' = qi)
            /\ (passes' # passes =>
                    /\ qi < Len(zip_codes)
                    /\ passes' = Append(passes, zip_codes[qi + 1]))]_vars

\* C2 witness: the run "10001", "90210" of the specification's scenario: two
\* records for 10001, the listing fetch for 90210 failed, output written.
C2_Witness ==
    /\ pc = "exit"
    /\ writes = 1
    /\ ListingFailed
    /\ passes = << <<"10001">>, <<"90210">> >>
    /\ Len(output) = 2
    /\ \A k \in 1..Len(output) : output[k].zip_code = <<"10001">>

\* the attempts of the script that did not raise
Succeeding(resps) == {i \in 1..MaxAttempts : ~resps[i].raises}
Least(S) == CHOOSE i \in S : \A j \in S : i <= j

\* C3: a fetch makes at most 3 attempts, returns the markup of the first
\* attempt that succeeds after exactly that many attempts, and fails if and
\* only if all 3 attempts failed.
C3_ThreeAttempts ==
    req.called =>
        LET r == req.result
            S == Succeeding(req.resps)
        IN  /\ r.attempts \in 1..MaxAttempts
            /\ (~r.ok => r.attempts = MaxAttempts /\ S = {})
            /\ (S = {} => ~r.ok)
            /\ (r.ok =>
                    /\ r.attempts = Least(S)
                    /\ r.content = req.resps[r.attempts].body)

\* C4: in the HTTP variant an attempt answered with a non-2xx status is a
\* failed attempt: it is retried while attempts remain, and its body is never
\* returned as the fetched markup.
C4_Non2xxIsFailure ==
    (req.called /\ variant = "http") =>
        LET r == req.result
        IN  /\ (r.ok => r.status = "2xx")
            /\ \A i \in 1..(MaxAttempts - 1) :
                   (i <= r.attempts /\ ~req.resps[i].raises
                        /\ req.resps[i].status = "non2xx")
                       => r.attempts > i

\* an anchor the claim counts: it has an href that contains '/deals/' and is
\* not the bare deals index
IsDealAnchor(link) == link.hasHref /\ IsDealHref(link.href)
\* the deal anchors of the markup, in document order
DealAnchors == SelectSeq(soup, IsDealAnchor)
\* a URL with scheme and host
IsAbsolute(url) == url # <<>> /\ url[1] = ORIGIN

\* C5: for a listing whose N deal anchors have pairwise distinct targets, the
\* extractor returns N URLs, the i-th being the absolute URL of the i-th deal
\* anchor, and none is a bare '/deals/' index URL.
C5_DistinctAnchorsAbsolute ==
    (found.called
        /\ \A i, j \in 1..Len(DealAnchors) :
               i # j => DealAnchors[i].href # DealAnchors[j].href)
    =>  /\ Len(found.links) = Len(DealAnchors)
        /\ \A i \in 1..Len(found.links) :
               /\ i <= Len(DealAnchors)
               /\ EndsWith(found.links[i], DealAnchors[i].href)
               /\ IsAbsolute(found.links[i])
               /\ ~EndsWith(found.links[i], DEALS_MARKER)

\* the records accumulated so far in the run
Accumulated == all_deals \o (IF pc = "links" THEN deals ELSE <<>>)

\* C6: no two accumulated records share (url, postal_code, search_term).
C6_NoDuplicateTriple ==
    \A i, j \in 1..Len(Accumulated) :
        i # j =>
            << Accumulated[i].url, Accumulated[i].zip_code, Accumulated[i].search_term >>
                # << Accumulated[j].url, Accumulated[j].zip_code,
                     Accumulated[j].search_term >>

\* C7: in the browser variant a created session is never released twice, and
\* when the process has ended it has been released exactly once.
C7_SessionReleasedOnce ==
    variant = "browser" =>
        /\ quits <= 1
        /\ (pc = "exit" /\ driver # "none") => (quits = 1 /\ driver = "quit")

\* the records have non-decreasing positions in the sequence of zip codes
RECURSIVE InQueryOrder(_, _)
InQueryOrder(recs, zips) ==
    IF recs = <<>> THEN TRUE
    ELSE IF zips = <<>> THEN FALSE
    ELSE IF Head(recs).zip_code = Head(zips) THEN InQueryOrder(Tail(recs), zips)
    ELSE InQueryOrder(recs, Tail(zips))

\* the urls occur in the list in the same relative order
RECURSIVE IsSubsequence(_, _)
IsSubsequence(urls, list) ==
    IF urls = <<>> THEN TRUE
    ELSE IF list = <<>> THEN FALSE
    ELSE IF Head(urls) = Head(list) THEN IsSubsequence(Tail(urls), Tail(list))
    ELSE IsSubsequence(urls, Tail(list))

\* C8: deals.json is written at most once, and never while a zip code is
\* still pending; what is written is everything accumulated, query by query in
\* the order of the zip codes and, within a query, in link order.
C8_WrittenOnceAtEnd ==
    /\ [](/\ writes <= 1
          /\ (writes = 1 =>
                /\ pc \in {"exit", "finally"}
                /\ passes = zip_codes
                /\ output = all_deals)
          /\ InQueryOrder(all_deals, zip_codes)
          /\ (pc = "links" =>
                IsSubsequence([k \in 1..Len(deals) |-> deals[k].url], links)))
    /\ [][/\ (writes' # writes => pc = "loop" /\ qi = Len(zip_codes))
          /\ (all_deals' # all_deals =>
                pc = "links" /\ li > Len(links) /\ all_deals' = all_deals \o deals)]_vars

\* C8 witness: a written result holding records of two queries, two of them
\* from one query.
C8_Witness ==
    /\ writes = 1
    /\ Len(output) >= 3
    /\ output[1].zip_code # output[Len(output)].zip_code
    /\ output[1].zip_code = output[2].zip_code
    /\ output[1].url # output[2].url

\* a line with no character other than whitespace
IsBlank(line) == \A k \in 1..Len(line) : line[k] = SPACE
\* zipcodes.txt is missing or has no non-blank line
NoZipCodes == ~file.exists \/ \A i \in 1..Len(file.lines) : IsBlank(file.lines[i])

\* C9: with zipcodes.txt missing or without a non-blank line the run ends
\* with exit status 1 at its first step: no scraper is constructed, no page is
\* fetched and deals.json is not written.
C9_StartupAbort ==
    NoZipCodes =>
        /\ inits = 0
        /\ ~fetched
        /\ driver = "none"
        /\ writes = 0
        /\ output = <<>>
        /\ pc \in {"start", "exit"}
        /\ (pc = "exit" => exit_code = 1)

\* C9 witness: a file of blank lines only, and the run has ended.
C9_Witness ==
    /\ file.exists
    /\ Len(file.lines) >= 2
    /\ NoZipCodes
    /\ pc = "exit"
    /\ exit_code = 1

\* the stripped non-blank lines of the file, in file order
ExpectedPasses ==
    LET NonBlank(line) == ~IsBlank(line)
        kept == SelectSeq(file.lines, NonBlank)
    IN  [k \in 1..Len(kept) |-> Strip(kept[k])]

\* the run went through its loop and saved the result
Completed == writes = 1

\* C10: the passes started are always the first passes of "one per non-blank
\* line, in file order"; a completed run has made all of them; and a pass
\* starts only when no pass is in progress.
C10_OnePassPerLine ==
    /\ [](/\ Len(passes) <= Len(ExpectedPasses)
          /\ passes = SubSeq(ExpectedPasses, 1, Len(passes))
          /\ (Completed => passes = ExpectedPasses))
    /\ [][passes' # passes =>
            /\ pc = "loop"
            /\ pc' = "links"
            /\ Len(passes') = Len(passes) + 1]_vars

\* C10 witness: a file of one blank line and two zip codes, run to the end
\* with exactly two passes.
C10_Witness ==
    /\ Len(file.lines) = 3
    /\ \E i \in 1..3 : IsBlank(file.lines[i])
    /\ Completed
    /\ pc = "exit"
    /\ Len(passes) = 2
    /\ passes[1] # passes[2]

\* the optional keys whose value is a text
TextKeys == {"title", "merchant", "location", "fine_print", "description"}
\* the key under which the variant stores the price options
OptionsKey == IF variant = "http" THEN "price_options" ELSE "options"

\* C11: an optional field with no element in the markup has no key in the
\* record, and no text-valued optional key of a record holds the empty string.
C11_NoEmptyOptionalKey ==
    detail.called =>
        /\ \A key \in TextKeys :
               /\ detail_page[key] = <<>> => key \notin DOMAIN detail.data
               /\ key \in DOMAIN detail.data => detail.data[key] # <<>>
        /\ detail_page.highlights = <<>> => "highlights" \notin DOMAIN detail.data
        /\ detail_page.options = <<>> => OptionsKey \notin DOMAIN detail.data

\* the sub-fields the variant recognizes in a price-option container
SubKeys ==
    IF variant = "http" THEN {"original_price", "current_price"}
    ELSE {"title", "original_price", "current_price", "discount", "bought"}
\* the recognized sub-fields for which the container holds an element
Resolved(c) == {k \in SubKeys : c[k] # <<>>}
\* the price-option list of the record ([] when the key is absent)
RecordOptions ==
    IF OptionsKey \in DOMAIN detail.data THEN detail.data[OptionsKey] ELSE <<>>
\* the containers with at least one resolved sub-field, in page order
ContributingContainers ==
    LET HasSubField(c) == Resolved(c) # {}
    IN  SelectSeq(detail_page.options, HasSubField)

\* C12: the price-option list has one entry per container with at least one
\* resolved sub-field, in page order, each entry holding exactly the resolved
\* sub-fields of its container; containers without one contribute nothing, so
\* the list is never longer than the number of containers.
C12_OptionPerResolvedContainer ==
    detail.called =>
        /\ Len(RecordOptions) = Len(ContributingContainers)
        /\ Len(RecordOptions) <= Len(detail_page.options)
        /\ \A i \in 1..Len(RecordOptions) :
               /\ DOMAIN RecordOptions[i] # {}
               /\ i <= Len(ContributingContainers)
               /\ DOMAIN RecordOptions[i] = Resolved(ContributingContainers[i])
               /\ \A k \in DOMAIN RecordOptions[i] :
                      RecordOptions[i][k] = Strip(Head(ContributingContainers[i][k]))

\* C12 witness: two containers, the first without any recognized sub-field,
\* and a list holding the entry of the second alone.
C12_Witness ==
    /\ detail.called
    /\ Len(detail_page.options) = 2
    /\ Resolved(detail_page.options[1]) = {}
    /\ Len(RecordOptions) = 1
    /\ DOMAIN RecordOptions[1] = Resolved(detail_page.options[2])

\* C13: within a query pass a delay lies between any two successive detail
\* fetches, whether the earlier one succeeded or failed; and when main is
\* about to start the pass of a further zip code, the last thing the previous
\* pass did was the inter-query delay.
C13_PacingDelays ==
    /\ \A i, j \in 1..Len(trace) :
           (i < j /\ IsDetailFetch(trace[i]) /\ IsDetailFetch(trace[j]))
               => \E k \in (i + 1)..(j - 1) : trace[k].ev = "delay"
    /\ (pc = "loop" /\ qi >= 1 /\ qi < Len(zip_codes))
           => (trace # <<>> /\ trace[Len(trace)] = DelayEvent("query"))

\* the links the first selector pattern alone yields
FirstPatternLinks == CollectLinks(Select(soup, link_selectors[1]), <<>>)

\* C14: the seven-pattern extraction of the HTTP variant and the single scan
\* of the browser variant return the same list in the same order; the first
\* pattern alone yields that list, and every element a later pattern selects
\* and the loop accepts contributes a link the first pattern already yielded.
C14_SelectorsAddNothing ==
    found.called =>
        /\ found.links = ExtractLinksHttp(soup)
        /\ found.links = ExtractLinksBrowser(soup)
        /\ found.links = FirstPatternLinks
        /\ \A k \in 2..Len(link_selectors) :
               \A i \in 1..Len(Select(soup, link_selectors[k])) :
                   LET href == GetHref(Select(soup, link_selectors[k])[i])
                   IN  IsDealHref(href) => InList(FullUrl(href), FirstPatternLinks)

\* C14 witness: the HTTP variant on a page where later patterns select deal
\* anchors too (one inside a card, one with an absolute groupon.com URL) and
\* a card anchor without href.
C14_Witness ==
    /\ found.called
    /\ variant = "http"
    /\ Len(found.links) >= 2
    /\ \E i \in 1..Len(soup) : soup[i].anc # {} /\ IsDealAnchor(soup[i])
    /\ \E i \in 1..Len(soup) :
           IsDealAnchor(soup[i]) /\ Matches(link_selectors[5], soup[i])

====
